---------------------------- MODULE Spec2Model ----------------------------
(***************************************************************************)
(* Parssir: a tokenizer (Lexer) and a precedence-climbing parser (Parser)  *)
(* for infix expressions, src/parssir.py.                                   *)
(*                                                                         *)
(* Strings are sequences of one-character strings, so that the regular     *)
(* expressions of the Lexer can be modelled by what they match.            *)
(***************************************************************************)
EXTENDS Integers, Sequences, FiniteSets, TLC

VARIABLES
    expression,   \* the string handed to Parser(expression)
    tokens,       \* self.lexer.tokens: the token list, REVERSED (next token last)
    pc,           \* "new" | "ready" | "running" | "returned" | "raised"
    stack,        \* the activations of parse_expression, outermost first
    result,       \* what the top-level parse_expression returned
    exc           \* the exception that ended the parse, if any

vars == <<expression, tokens, pc, stack, result, exc>>

---------------------------------------------------------------------------
(* Characters *)

\* The printable ASCII characters from code 32 (space) to 95 (_), and from
\* code 97 (a) to 126 (~).
AsciiLow ==
    <<" ", "!", "\"", "#", "$", "%", "&", "'", "(", ")", "*", "+", ",", "-", ".", "/",
      "0", "1", "2", "3", "4", "5", "6", "7", "8", "9", ":", ";", "<", "=", ">", "?",
      "@", "A", "B", "C", "D", "E", "F", "G", "H", "I", "J", "K", "L", "M", "N", "O",
      "P", "Q", "R", "S", "T", "U", "V", "W", "X", "Y", "Z", "[", "\\", "]", "^", "_">>

AsciiHigh ==
    <<"a", "b", "c", "d", "e", "f", "g", "h", "i", "j", "k", "l", "m", "n", "o",
      "p", "q", "r", "s", "t", "u", "v", "w", "x", "y", "z", "{", "|", "}", "~">>

\* The characters the model knows: printable ASCII, tab and newline.
Chars ==
    {AsciiLow[i] : i \in 1..Len(AsciiLow)} \cup {AsciiHigh[i] : i \in 1..Len(AsciiHigh)}
        \cup {"\t", "\n"}

\* The code point of each character.
OrdTable ==
    [c \in Chars |->
        IF c = "\t" THEN 9
        ELSE IF c = "\n" THEN 10
        ELSE IF \E i \in 1..Len(AsciiLow) : AsciiLow[i] = c
             THEN 31 + (CHOOSE i \in 1..Len(AsciiLow) : AsciiLow[i] = c)
        ELSE 96 + (CHOOSE i \in 1..Len(AsciiHigh) : AsciiHigh[i] = c)]

Ord(c) == OrdTable[c]

\* \d
IsDigit(c) == Ord(c) \in Ord("0")..Ord("9")

\* [a-zA-Z_]
IsLetter(c) ==
    \/ Ord(c) \in Ord("a")..Ord("z")
    \/ Ord(c) \in Ord("A")..Ord("Z")
    \/ c = "_"

\* [+*/()-,] : the characters + * / ( and the RANGE from ) to , (the "-"
\* between ")" and "," makes a range, it is not a literal minus sign).
IsPunct(c) ==
    \/ c \in {"+", "*", "/", "("}
    \/ Ord(c) \in Ord(")")..Ord(",")

---------------------------------------------------------------------------
(* Tokens.  A Python string is written as the tuple of its characters. *)

OPERATORS ==
    { <<"+">>, <<"-">>, <<"*">>, <<"/">>, <<"%">>,
      <<"*", "*">>, <<"/", "/">>, <<"a", "n", "d">>, <<"o", "r">>,
      <<"n", "o", "t">>, <<"=", "=">>, <<"!", "=">>, <<"<">>, <<">">>,
      <<"<", "=">>, <<">", "=">>, <<"(">>, <<")">> }

TokenType == {"ATOM", "OP", "EOF"}

Token(type, value) == [type |-> type, value |-> value]

\* Token(TokenType.EOF, 'EOF'), the token lexicalize appends
EOFToken == Token("EOF", <<"E", "O", "F">>)

---------------------------------------------------------------------------
(* Lexer *)

\* re.fullmatch(r'\d+|[a-zA-Z_][a-zA-Z0-9_]*', token) and token not in OPERATORS
is_atom(token) ==
    /\ \/ /\ Len(token) >= 1
          /\ \A i \in 1..Len(token) : IsDigit(token[i])
       \/ /\ Len(token) >= 1
          /\ IsLetter(token[1])
          /\ \A i \in 2..Len(token) : IsLetter(token[i]) \/ IsDigit(token[i])
    /\ token \notin OPERATORS

\* token in OPERATORS
is_operator(token) == token \in OPERATORS

\* The end of the longest run of characters of one class that starts at i.
RECURSIVE RunEnd(_, _, _)
RunEnd(s, i, isDigitRun) ==
    IF /\ i + 1 <= Len(s)
       /\ IF isDigitRun THEN IsDigit(s[i + 1]) ELSE IsLetter(s[i + 1])
    THEN RunEnd(s, i + 1, isDigitRun)
    ELSE i

\* re.findall(r'\d+|[a-zA-Z_]+|[+*/()-,]', expression) from position i on:
\* the matches in order, the characters no alternative matches being skipped.
RECURSIVE FindAllFrom(_, _)
FindAllFrom(s, i) ==
    IF i > Len(s) THEN <<>>
    ELSE IF IsDigit(s[i])
         THEN <<SubSeq(s, i, RunEnd(s, i, TRUE))>>
                  \o FindAllFrom(s, RunEnd(s, i, TRUE) + 1)
    ELSE IF IsLetter(s[i])
         THEN <<SubSeq(s, i, RunEnd(s, i, FALSE))>>
                  \o FindAllFrom(s, RunEnd(s, i, FALSE) + 1)
    ELSE IF IsPunct(s[i])
         THEN <<SubSeq(s, i, i)>> \o FindAllFrom(s, i + 1)
    ELSE FindAllFrom(s, i + 1)

FindAll(s) == FindAllFrom(s, 1)

\* The body of the for loop of lexicalize: the token of one lexeme.
Classify(lex) ==
    IF is_atom(lex) THEN Token("ATOM", lex)
    ELSE IF is_operator(lex) THEN Token("OP", lex)
    ELSE Token("EOF", lex)

\* list(reversed(tokens))
Reversed(s) == [i \in 1..Len(s) |-> s[Len(s) + 1 - i]]

\* lexicalize without line 61: the final EOF token is not appended.
lexicalize_unterminated(s) ==
    LET lexemes == FindAll(s)
    IN  Reversed([i \in 1..Len(lexemes) |-> Classify(lexemes[i])])

\* Lexer.lexicalize: the value it leaves in self.tokens.
lexicalize(s) ==
    LET lexemes == FindAll(s)
        toks    == [i \in 1..Len(lexemes) |-> Classify(lexemes[i])]
    IN  Reversed(Append(toks, EOFToken))

---------------------------------------------------------------------------
(* Expressions *)

\* Python's None: the initial lhs, and what parse_expression returns on EOF
None == [kind |-> "None"]

\* Expression.Atom(token)
Atom(token) == [kind |-> "Atom", value |-> token]

\* Expression.Operation(op, [lhs, rhs])
Operation(op, operands) == [kind |-> "Operation", op |-> op, operands |-> operands]

---------------------------------------------------------------------------
(* Exceptions *)

NoExc == [type |-> "none", msg |-> "", key |-> <<>>]

SyntaxError(msg) == [type |-> "SyntaxError", msg |-> msg, key |-> <<>>]

\* table[op.value] on a missing key
KeyError(key) == [type |-> "KeyError", msg |-> "", key |-> key]

\* list.pop() and list[-1] on an empty list
IndexError(msg) == [type |-> "IndexError", msg |-> msg, key |-> <<>>]

---------------------------------------------------------------------------
(* Parser *)

\* The table of Parser.infix_binding_power: <<l_bp, r_bp>> per operator text.
table ==
    (<<"+">> :> <<10, 11>>) @@ (<<"-">> :> <<10, 11>>) @@
    (<<"*">> :> <<20, 21>>) @@ (<<"/">> :> <<20, 21>>)

\* infix_binding_power with the two powers of each pair exchanged, as if the
\* table read (11, 10) and (21, 20): equal operators then group to the right.
infix_binding_power_swapped(op) == <<table[op.value][2], table[op.value][1]>>

\* Parser.infix_binding_power(op), for an op the table holds
infix_binding_power(op) == table[op.value]

\* One activation of parse_expression(min_bp): its locals and where it is.
\*   at = "next": about to run line 108, token = self.lexer.next()
\*   at = "peek": about to run line 120, next_token = self.lexer.peek()
\*   at = "rhs" : waiting at line 139 for the recursive call to return
Frame(min_bp) == [min_bp |-> min_bp, lhs |-> None, op |-> None, at |-> "next"]

Top == stack[Len(stack)]

\* self.lexer.peek(): self.tokens[-1]
peek == tokens[Len(tokens)]

\* What self.lexer.next() leaves in self.tokens: the list without its last element
popped == SubSeq(tokens, 1, Len(tokens) - 1)

\* An exception leaves parse_expression: nothing catches it, every activation
\* is unwound and the caller of the top-level call gets no value.
Raise(e) ==
    /\ pc' = "raised"
    /\ exc' = e
    /\ stack' = <<>>
    /\ UNCHANGED result

\* "return v" of the innermost activation.  The top-level call hands v to its
\* caller; a recursive call hands it to line 139 of the activation below, which
\* runs line 140, lhs = Expression.Operation(op, [lhs, rhs]), and loops.
Return(v) ==
    /\ IF Len(stack) = 1
       THEN /\ pc' = "returned"
            /\ result' = v
            /\ stack' = <<>>
       ELSE LET n == Len(stack) - 1
                caller == stack[n]
            IN  /\ stack' = [SubSeq(stack, 1, n) EXCEPT ![n] =
                        [caller EXCEPT !.lhs = Operation(caller.op, <<caller.lhs, v>>),
                                       !.at = "peek"]]
                /\ UNCHANGED <<pc, result>>
    /\ UNCHANGED exc

\* Parser(expression): Lexer(expression) runs lexicalize.
Construct ==
    /\ pc = "new"
    /\ tokens' = lexicalize(expression)
    /\ pc' = "ready"
    /\ UNCHANGED <<expression, stack, result, exc>>

\* parser.parse_expression(): the top-level call, min_bp = 0, lhs = None.
Call ==
    /\ pc = "ready"
    /\ pc' = "running"
    /\ stack' = <<Frame(0)>>
    /\ UNCHANGED <<expression, tokens, result, exc>>

\* self.lexer.next() or self.lexer.peek() on an empty token list.
AccessEmpty ==
    /\ pc = "running"
    /\ tokens = <<>>
    /\ Top.at \in {"next", "peek"}
    /\ Raise(IndexError(IF Top.at = "next" THEN "pop from empty list"
                        ELSE "list index out of range"))
    /\ UNCHANGED <<expression, tokens>>

\* Lines 108-112: the leading token is an atom.
FirstAtom ==
    /\ pc = "running"
    /\ Top.at = "next"
    /\ tokens # <<>>
    /\ peek.type = "ATOM"
    /\ tokens' = popped
    /\ stack' = [stack EXCEPT ![Len(stack)] =
                    [@ EXCEPT !.lhs = Atom(peek), !.at = "peek"]]
    /\ UNCHANGED <<expression, pc, result, exc>>

\* FirstOp without its raise: the operator is taken as the left operand.
FirstOp_accepted ==
    /\ pc = "running"
    /\ stack[Len(stack)].at = "next"
    /\ tokens # <<>>
    /\ tokens[Len(tokens)].type = "OP"
    /\ tokens' = SubSeq(tokens, 1, Len(tokens) - 1)
    /\ stack' = [stack EXCEPT ![Len(stack)] =
                    [@ EXCEPT !.lhs = Atom(tokens[Len(tokens)]), !.at = "peek"]]
    /\ UNCHANGED <<expression, pc, result, exc>>

\* Lines 108-114: the leading token is an operator.
FirstOp ==
    /\ pc = "running"
    /\ Top.at = "next"
    /\ tokens # <<>>
    /\ peek.type = "OP"
    /\ tokens' = popped
    /\ Raise(SyntaxError("Operation cannot be the first symbol in an expression"))
    /\ UNCHANGED expression

\* Lines 108-116: the leading token has type EOF; "return" returns None.
FirstEOF ==
    /\ pc = "running"
    /\ Top.at = "next"
    /\ tokens # <<>>
    /\ peek.type = "EOF"
    /\ tokens' = popped
    /\ Return(None)
    /\ UNCHANGED expression

\* Lines 120-122, 142: the peeked token has type EOF; the loop ends.
LoopEOF ==
    /\ pc = "running"
    /\ Top.at = "peek"
    /\ tokens # <<>>
    /\ peek.type = "EOF"
    /\ Return(Top.lhs)
    /\ UNCHANGED <<expression, tokens>>

\* LoopAtom with "pass" in place of its raise: the atom falls through to the
\* binding-power lookup, which fails on it.
LoopAtom_falls_through ==
    /\ pc = "running"
    /\ stack[Len(stack)].at = "peek"
    /\ tokens # <<>>
    /\ tokens[Len(tokens)].type = "ATOM"
    /\ pc' = "raised"
    /\ exc' = KeyError(tokens[Len(tokens)].value)
    /\ stack' = <<>>
    /\ UNCHANGED <<expression, tokens, result>>

\* Lines 120-127: the peeked token is an atom.
LoopAtom ==
    /\ pc = "running"
    /\ Top.at = "peek"
    /\ tokens # <<>>
    /\ peek.type = "ATOM"
    /\ Raise(SyntaxError("Expect an operation, not an atom"))
    /\ UNCHANGED <<expression, tokens>>

\* Lines 133-134, 104: the peeked operator is no key of the table.
LoopUnsupported ==
    /\ pc = "running"
    /\ Top.at = "peek"
    /\ tokens # <<>>
    /\ peek.type = "OP"
    /\ peek.value \notin DOMAIN table
    /\ Raise(KeyError(peek.value))
    /\ UNCHANGED <<expression, tokens>>

\* Lines 133-136, 142: the peeked operator binds weaker than min_bp; it is
\* left in the list and lhs is returned.
LoopWeak ==
    /\ pc = "running"
    /\ Top.at = "peek"
    /\ tokens # <<>>
    /\ peek.type = "OP"
    /\ peek.value \in DOMAIN table
    /\ infix_binding_power(peek)[1] < Top.min_bp
    /\ Return(Top.lhs)
    /\ UNCHANGED <<expression, tokens>>

\* Lines 133-139: the operator is consumed and parse_expression(r_bp) called.
LoopConsume ==
    /\ pc = "running"
    /\ Top.at = "peek"
    /\ tokens # <<>>
    /\ peek.type = "OP"
    /\ peek.value \in DOMAIN table
    /\ ~(infix_binding_power(peek)[1] < Top.min_bp)
    /\ tokens' = popped
    /\ stack' = Append([stack EXCEPT ![Len(stack)] =
                           [@ EXCEPT !.op = peek, !.at = "rhs"]],
                       Frame(infix_binding_power(peek)[2]))
    /\ UNCHANGED <<expression, pc, result, exc>>

\* The steps of parse_expression
Parse ==
    \/ Call
    \/ AccessEmpty
    \/ FirstAtom
    \/ FirstOp
    \/ FirstEOF
    \/ LoopEOF
    \/ LoopAtom
    \/ LoopUnsupported
    \/ LoopWeak
    \/ LoopConsume

---------------------------------------------------------------------------
(* Inputs and specifications *)

\* Longest expression string enumerated
MaxLen == 4

\* The characters of the enumerated strings: a digit, a letter, three
\* operator characters the Lexer's pattern matches, the comma it matches too,
\* the minus sign and the blank.
Alphabet == {"1", "a", "+", "*", "(", ",", "-", " "}

\* The expressions of the documentation and of the __main__ block.
Samples ==
    { <<"1", " ", "+", " ", "2", " ", "*", " ", "3">>,
      <<"1", " ", "-", " ", "2", " ", "-", " ", "3">>,
      <<"2", " ", "*", " ", "3", " ", "+", " ", "4", " ", "*", " ", "5">>,
      <<"1", "3", " ", "*", "1", "3", " ", "+", " ", "a", " ", "*", " ", "b">>,
      <<"1", " ", "%", " ", "2">>,
      <<"1", " ", "a", "n", "d", " ", "2">>,
      <<"x", "_", "1", " ", "<", "=", " ", "y">>,
      <<" ", "\t", "\n">> }

Strings(n) == UNION {[1..k -> Alphabet] : k \in 0..n}

Inputs == Strings(MaxLen) \cup Samples

Init ==
    /\ expression \in Inputs
    /\ tokens = <<>>
    /\ pc = "new"
    /\ stack = <<>>
    /\ result = None
    /\ exc = NoExc

Next == Construct \/ Parse

Spec == Init /\ [][Next]_vars

---------------------------------------------------------------------------
(* The Tree Builder alone: a Lexer whose token list is assigned directly    *)
(* (parser.lexer.tokens = ...), so that parse_expression is run on token   *)
(* sequences whatever the Lexer makes of their text.                        *)

\* Most tokens before the final EOF token, in the sequences of any shape
MaxTokens == 4

\* Most operators in the sequences Atom (Operator Atom)*
MaxOps == 3

\* "A" stands for an atom; the others are the token's text.
TokenKinds == {"A", "+", "-", "*", "/", "(", ","}

InfixKinds == {"+", "-", "*", "/"}

\* str(n) for a natural number n
RECURSIVE Dec(_)
Dec(n) ==
    IF n < 10 THEN <<AsciiLow[17 + n]>>
    ELSE Dec(n \div 10) \o <<AsciiLow[17 + (n % 10)]>>

\* The token sequences of any shape, and the well-formed ones.
Shapes ==
    UNION {[1..k -> TokenKinds] : k \in 0..MaxTokens}
    \cup UNION { { [i \in 1..(2 * n + 1) |-> IF i % 2 = 1 THEN "A" ELSE ops[i \div 2]]
                     : ops \in [1..n -> InfixKinds] } : n \in 0..MaxOps }

\* The tokens of a shape; the atoms are the numbers 1, 2, 3, ... in order.
TokensOf(shape) ==
    [i \in 1..Len(shape) |->
        IF shape[i] = "A"
        THEN Token("ATOM", Dec(Cardinality({j \in 1..i : shape[j] = "A"})))
        ELSE Classify(<<shape[i]>>)]

\* The text of a token sequence: the tokens' values, a blank between two.
RECURSIVE Render(_)
Render(toks) ==
    IF toks = <<>> THEN <<>>
    ELSE IF Len(toks) = 1 THEN toks[1].value
    ELSE toks[1].value \o <<" ">> \o Render(Tail(toks))

InitTokens ==
    /\ \E shape \in Shapes :
          /\ tokens = Reversed(Append(TokensOf(shape), EOFToken))
          /\ expression = Render(TokensOf(shape))
    /\ pc = "ready"
    /\ stack = <<>>
    /\ result = None
    /\ exc = NoExc

SpecTokens == InitTokens /\ [][Parse]_vars

---------------------------------------------------------------------------
(* Reference definitions of the documented behaviour, used by the          *)
(* properties below.  None of them is used by the actions.                 *)

Finished == pc \in {"returned", "raised"}

IsSpace(c) == c \in {" ", "\t", "\n"}

DigitChars == {"0", "1", "2", "3", "4", "5", "6", "7", "8", "9"}

Additive == {<<"+">>, <<"-">>}

Multiplicative == {<<"*">>, <<"/">>}

\* The end of the run of non-blank characters that starts at i.
RECURSIVE WordEnd(_, _)
WordEnd(s, i) ==
    IF i + 1 <= Len(s) /\ ~IsSpace(s[i + 1]) THEN WordEnd(s, i + 1) ELSE i

\* The whitespace-separated lexemes of a string, from position i on.
RECURSIVE SplitFrom(_, _)
SplitFrom(s, i) ==
    IF i > Len(s) THEN <<>>
    ELSE IF IsSpace(s[i]) THEN SplitFrom(s, i + 1)
    ELSE <<SubSeq(s, i, WordEnd(s, i))>> \o SplitFrom(s, WordEnd(s, i) + 1)

SplitWS(s) == SplitFrom(s, 1)

IsNumber(lex) == Len(lex) >= 1 /\ \A i \in 1..Len(lex) : lex[i] \in DigitChars

\* The documented atom pattern: ^\d+$ or ^[A-Za-z_][A-Za-z0-9_]*$, and not
\* one of the reserved words and, or, not.
DocIsAtom(lex) ==
    /\ \/ IsNumber(lex)
       \/ /\ Len(lex) >= 1
          /\ lex[1] \notin DigitChars
          /\ \A i \in 1..Len(lex) :
                \/ lex[i] \in DigitChars
                \/ lex[i] = "_"
                \/ \E k \in 1..26 : lex[i] \in {AsciiHigh[k], AsciiLow[33 + k]}
    /\ lex \notin {<<"a", "n", "d">>, <<"o", "r">>, <<"n", "o", "t">>}

\* The documented token of a lexeme that is an operator or an atom.
DocToken(lex) ==
    IF lex \in OPERATORS THEN Token("OP", lex) ELSE Token("ATOM", lex)

\* Lexemes of the form Atom (Operator Atom)*, the atoms numbers and the
\* operators among + - * /.
IsInfixChain(lx) ==
    /\ Len(lx) % 2 = 1
    /\ \A i \in 1..Len(lx) :
          IF i % 2 = 1 THEN IsNumber(lx[i])
          ELSE lx[i] \in Additive \cup Multiplicative

\* The same, with the operators all of one precedence level.
IsOneLevelChain(lx) ==
    /\ IsInfixChain(lx)
    /\ \/ \A i \in 1..Len(lx) : i % 2 = 0 => lx[i] \in Additive
       \/ \A i \in 1..Len(lx) : i % 2 = 0 => lx[i] \in Multiplicative

\* The reference grammar
\*     expr ::= expr (+|-) term | term      term ::= term (*|/) atom | atom
\* read off a chain of lexemes.  RefTerm folds a chain to the left whatever
\* its operators are.
RECURSIVE RefTerm(_)
RefTerm(lx) ==
    IF Len(lx) = 1 THEN Atom(Token("ATOM", lx[1]))
    ELSE Operation(Token("OP", lx[Len(lx) - 1]),
                   <<RefTerm(SubSeq(lx, 1, Len(lx) - 2)),
                     Atom(Token("ATOM", lx[Len(lx)]))>>)

RECURSIVE RefExpr(_)
RefExpr(lx) ==
    LET adds == {i \in 1..Len(lx) : i % 2 = 0 /\ lx[i] \in Additive}
    IN  IF adds = {} THEN RefTerm(lx)
        ELSE LET k == CHOOSE i \in adds : \A j \in adds : j <= i
             IN  Operation(Token("OP", lx[k]),
                           <<RefExpr(SubSeq(lx, 1, k - 1)),
                             RefTerm(SubSeq(lx, k + 1, Len(lx)))>>)

\* The lexemes of a string of numbers and + - * / signs, blanks optional;
\* any other character gives the lexeme "?", which no chain holds.
RECURSIVE NumEnd(_, _)
NumEnd(s, i) ==
    IF i + 1 <= Len(s) /\ s[i + 1] \in DigitChars THEN NumEnd(s, i + 1) ELSE i

RECURSIVE ChainLexemesFrom(_, _)
ChainLexemesFrom(s, i) ==
    IF i > Len(s) THEN <<>>
    ELSE IF IsSpace(s[i]) THEN ChainLexemesFrom(s, i + 1)
    ELSE IF s[i] \in DigitChars
         THEN <<SubSeq(s, i, NumEnd(s, i))>> \o ChainLexemesFrom(s, NumEnd(s, i) + 1)
    ELSE IF <<s[i]>> \in Additive \cup Multiplicative
         THEN <<<<s[i]>>>> \o ChainLexemesFrom(s, i + 1)
    ELSE <<<<"?">>>> \o ChainLexemesFrom(s, i + 1)

\* Two numbers with only blanks between them are two lexemes, so such a
\* string is no chain.
ChainLexemes(s) == ChainLexemesFrom(s, 1)

\* Every Operation of a tree has exactly two operands, both of them trees.
RECURSIVE AllBinary(_)
AllBinary(e) ==
    IF e.kind = "Atom" THEN TRUE
    ELSE IF e.kind = "Operation"
         THEN /\ Len(e.operands) = 2
              /\ AllBinary(e.operands[1])
              /\ AllBinary(e.operands[2])
    ELSE FALSE

\* The parser is about to look at the token after an operand (line 120).
AtPeek == pc = "running" /\ Top.at = "peek"

\* The parser is about to take the leading token of an expression (line 108).
AtNext == pc = "running" /\ Top.at = "next"

---------------------------------------------------------------------------
(* Properties *)

\* C1 (checked under SpecTokens): on every token sequence of the form
\* Atom (Operator Atom)* EndOfInput with operators among + - * /,
\* parse_expression(0) runs to its return, raises nothing, and returns the
\* tree of the reference grammar (* and / bind tighter than + and -, equal
\* precedence groups to the left, atoms and operators in input order).
C1_TreeMatchesReference ==
    IsInfixChain(SplitWS(expression)) =>
        /\ pc = "running" => ENABLED Parse
        /\ pc # "raised"
        /\ pc = "returned" => result = RefExpr(SplitWS(expression))

\* The tokens of 1 + 2 * 3 have been parsed to +(1, *(2, 3)).
C1_Witness ==
    /\ pc = "returned"
    /\ expression = <<"1", " ", "+", " ", "2", " ", "*", " ", "3">>
    /\ result = Operation(Token("OP", <<"+">>),
                    <<Atom(Token("ATOM", <<"1">>)),
                      Operation(Token("OP", <<"*">>),
                          <<Atom(Token("ATOM", <<"2">>)),
                            Atom(Token("ATOM", <<"3">>))>>)>>)

\* C2: for every input string of integer atoms separated by operators of one
\* precedence level, Parser(input).parse_expression() returns the fully
\* left-nested tree over all atoms of the input.
C2_LeftAssociativeFromString ==
    (Finished /\ IsOneLevelChain(ChainLexemes(expression))) =>
        /\ pc = "returned"
        /\ result = RefTerm(ChainLexemes(expression))

\* C3: for every input that is a whitespace-separated sequence of lexemes,
\* each an operator of the vocabulary or an atom, the Lexer emits exactly one
\* token per lexeme, in order, with the lexeme's text, of kind OP for the
\* operators and ATOM for the atoms, followed by the final EOF token.
C3_TokenPerLexeme ==
    LET lx == SplitWS(expression)
    IN  (/\ pc = "ready"
         /\ \A i \in 1..Len(lx) : lx[i] \in OPERATORS \/ DocIsAtom(lx[i]))
        => Reversed(tokens) = Append([i \in 1..Len(lx) |-> DocToken(lx[i])], EOFToken)

\* C4: the token sequence the Lexer builds is non-empty, its last token (in
\* consumption order, so the first of the reversed list) has kind EOF, and
\* no other token has.
C4_SingleTerminalEOF ==
    pc = "ready" =>
        /\ tokens # <<>>
        /\ tokens[1].type = "EOF"
        /\ \A i \in 2..Len(tokens) : tokens[i].type # "EOF"

\* C5: when the parser meets, in infix position, an operator token for which
\* the table holds no binding power, the parse fails with an explicit syntax
\* error that names the operator, never with the lookup's KeyError; and the
\* parse of "1 % 2" ends in such an error naming %.
C5_UnsupportedOperatorRejected ==
    [][ /\ (AtPeek /\ tokens # <<>> /\ peek.type = "OP" /\ peek.value \notin DOMAIN table)
            => (pc' = "raised" /\ exc'.type = "SyntaxError" /\ exc'.key = peek.value)
        /\ (Finished' /\ expression = <<"1", " ", "%", " ", "2">>)
            => (pc' = "raised" /\ exc'.key = <<"%">>) ]_vars

\* C6: when the token after a consumed infix operator has kind EOF the parse
\* ends in an explicit error, and every tree a parse returns has exactly two
\* operand trees in each Operation.
C6_MissingOperandRejected ==
    [][ /\ (AtNext /\ Len(stack) > 1 /\ tokens # <<>> /\ peek.type = "EOF")
            => (pc' = "raised" /\ exc'.type = "SyntaxError")
        /\ pc' = "returned" => (result' = None \/ AllBinary(result')) ]_vars

\* C7: whenever the token peeked after a parsed operand is an atom, at any
\* depth of the recursion, the parse is aborted by the SyntaxError "Expect an
\* operation, not an atom", the atom stays in the token list and no tree
\* reaches the caller.
C7_AdjacentAtomsRejected ==
    [][ (AtPeek /\ tokens # <<>> /\ peek.type = "ATOM") =>
            /\ pc' = "raised"
            /\ exc' = SyntaxError("Expect an operation, not an atom")
            /\ tokens' = tokens
            /\ stack' = <<>>
            /\ result' = None ]_vars

\* "1+a1": the atom 1 was met right after the operand a, one call deep.
C7_Witness ==
    /\ pc = "raised"
    /\ expression = <<"1", "+", "a", "1">>
    /\ exc = SyntaxError("Expect an operation, not an atom")
    /\ tokens = <<EOFToken, Token("ATOM", <<"1">>)>>
    /\ result = None

\* C8: whenever the first token parse_expression consumes is an operator, at
\* the top level or at the start of a right-hand side, the parse is aborted
\* by the SyntaxError "Operation cannot be the first symbol in an expression"
\* and no tree reaches the caller.
C8_LeadingOperatorRejected ==
    [][ (AtNext /\ tokens # <<>> /\ peek.type = "OP") =>
            /\ pc' = "raised"
            /\ exc' = SyntaxError("Operation cannot be the first symbol in an expression")
            /\ stack' = <<>>
            /\ result' = None ]_vars

\* "1+*1": the operator * started the right-hand side of +.
C8_Witness ==
    /\ pc = "raised"
    /\ expression = <<"1", "+", "*", "1">>
    /\ exc = SyntaxError("Operation cannot be the first symbol in an expression")
    /\ tokens = <<EOFToken, Token("ATOM", <<"1">>)>>
    /\ result = None

\* C9: for an empty or all-whitespace input the token sequence is the single
\* EOF token, and the top-level parse_expression runs to its return, raises
\* nothing and returns None.
C9_EmptyInput ==
    (\A i \in 1..Len(expression) : IsSpace(expression[i])) =>
        /\ pc = "ready" => tokens = <<EOFToken>>
        /\ pc \in {"new", "ready", "running"} => ENABLED Next
        /\ pc # "raised" /\ exc = NoExc
        /\ pc = "returned" => result = None

\* The parse of blank, tab, newline has returned None.
C9_Witness ==
    /\ pc = "returned"
    /\ expression = <<" ", "\t", "\n">>
    /\ result = None
    /\ exc = NoExc

\* C10: the token list is never empty when the parser is about to call
\* next() or peek(), so neither ever raises IndexError.
C10_NeverAccessedEmpty ==
    /\ (pc = "running" /\ Top.at \in {"next", "peek"}) => tokens # <<>>
    /\ exc.type # "IndexError"

=============================================================================
